---- MODULE Spec2Model ----
(***************************************************************************)
(* Model of the record encryption pipeline of the Tkinter Password Manager *)
(* (ndv_cypher.py, dbmanager.py, recordmanager.py, pwmain060.py).          *)
(*                                                                         *)
(* Strings are sequences of codepoints, so ord/chr are the identity on the *)
(* codepoints chr accepts; str(int), int(str), " ".join and str.split are  *)
(* modelled character by character.                                        *)
(*                                                                         *)
(* The specifications of the module:                                       *)
(*   SpecCipher      VernamEncrypt.encrypt / VernamDecrypt.decrypt on      *)
(*                   strings (SpecCipherLive: with fair draws)             *)
(*   Spec            the application: the two-table store, load, save,     *)
(*                   autosave, close, log out, crash and restart           *)
(*   SpecSession     the application without a process stop inside a save  *)
(*   SpecFirstCrash  the application up to the load that follows the first *)
(*                   process stop inside a save                            *)
(*   SpecClearDb     the database calls on their own                       *)
(*   SpecPassRules   Security.pass_rules and the three callers that set a  *)
(*                   password                                              *)
(***************************************************************************)
EXTENDS Integers, Sequences, FiniteSets, TLC

\* ---- state of one encrypt call followed by one decrypt call (SpecCipher)
VARIABLES
    text,          \* the argument of VernamEncrypt.encrypt
    pos,           \* position of the for loop over plain_ascii (1-based)
    key,           \* encrypt: list of str(shift)
    encrypt_list,  \* encrypt: list of shifted characters
    shift,         \* _gen_char: last shift drawn
    new_value,     \* _gen_char: last shifted character ("" before a draw)
    valid,         \* _gen_char: loop flag
    encr_text,     \* ciphertext returned by encrypt
    encr_key,      \* key text returned by encrypt
    cipher,        \* first argument of VernamDecrypt.decrypt
    keytext,       \* second argument of VernamDecrypt.decrypt
    plain_text,    \* outcome of decrypt: [err, text]
    cpc            \* control point: "encrypt", "gen_char", "returned", "decrypted"

cvars == <<text, pos, key, encrypt_list, shift, new_value, valid, encr_text,
           encr_key, cipher, keytext, plain_text, cpc>>

\* ---- state of the application (Spec)
VARIABLES
    passw_table,      \* rows <<personID, site, username, password>> in scan order
    key_table,        \* rows <<personID, sitekey, usernamekey, passwordkey>>
    passw_seq,        \* SQLITE_SEQUENCE entry of passw_table (0: no entry)
    key_seq,          \* SQLITE_SEQUENCE entry of key_table (0: no entry)
    record_dict,      \* MainWindow.record_dict: <<id, record>> in insertion order
    unsaved_changes,  \* RecordManager.unsaved_changes
    stopped,          \* WindowManager.stopped
    auto_lock,        \* WindowManager.auto_lock is held
    autosave_id,      \* an autosave tick is scheduled with menu.after
    to_write,         \* write_encrypted: the records record_encryption was given
    key_row,          \* write_encrypted: keys[x] of the row written to passw_table
    wx,               \* write_encrypted: loop index x
    preserve,         \* write_encrypted: argument preserve
    pre_rows,         \* <<rows of passw_table, rows of key_table>> when the
                      \* running clear-and-rewrite was called
    caller,           \* the handler the running clear-and-rewrite returns to
    pc,               \* control point of the single control flow
    load_state,       \* state create_dict found the tables in ("none" once used)
    load_err,         \* the exception create_dict raised in MainWindow.__init__
    repair,           \* "pending": this session's load found Mismatch or
                      \* OrphanKeys; "confirmed": and the user confirmed a clear
    stopped_at,       \* the control point the previous process was stopped at
                      \* inside a clear-and-rewrite ("none" once the load that
                      \* follows has been used, or when it ended otherwise)
    saved,            \* [complete, R]: the tables hold a completed save of R
    crashes           \* number of times the process was stopped

storevars == <<passw_table, key_table, passw_seq, key_seq>>
memvars == <<record_dict, unsaved_changes, stopped, auto_lock, autosave_id>>
wevars == <<to_write, key_row, wx, preserve, pre_rows, caller>>
loadvars == <<load_state, load_err, repair, stopped_at>>
avars == <<storevars, memvars, wevars, loadvars, saved, crashes, pc>>

\* ---- state of the database calls on their own (SpecClearDb)
VARIABLES
    log_table,        \* rows <<logID, date, user, success>> in scan order
    log_seq,          \* SQLITE_SEQUENCE entry of log_table (0: no entry)
    cleared,          \* argument of the last clear_db call ("none": an insert
                      \* came after it, or there was none)
    before            \* the three tables and sequences when that call began

dbvars == <<log_table, log_seq, cleared, before>>

\* ---- state of one call that sets the user's password (SpecPassRules)
VARIABLES
    pass_text,        \* the text of the new-password entry
    secure_pass,      \* what pass_rules returned for it: "True", "False"
                      \* ("none": pass_rules was not called)
    shown,            \* the error boxes the call showed
    user_password,    \* settings "User Details"/"password": whether the call
                      \* wrote it, and the text whose bcrypt hash it wrote
    ppc               \* control point: "entry", "done"

pvars == <<pass_text, secure_pass, shown, user_password, ppc>>

\* ------------------------------------------------------------------ bounds
\* longest plaintext given to encrypt in SpecCipher
MaxLen == 2

\* most records the in-memory record set holds in Spec
MaxRecords == 2

\* most times the process is stopped in one behaviour of Spec
MaxCrashes == 1

\* codepoints the plaintexts of SpecCipher are built from: the ends of the
\* ASCII range, a control character, a letter, the backslash and one
\* codepoint above 127
Alphabet == {0, 31, 65, 92, 127, 233}

\* results val + shift the sampled random draws of SpecCipher land on when the
\* plaintext has more than one character (one-character plaintexts use every
\* draw random.randint can return): the values around each edge of the test
\* in _gen_char
DrawTargets == {0, 31, 32, 91, 92, 93, 126, 127}

\* results val + shift the sampled random draws of Spec land on: a digit, a
\* letter and the rejected backslash
StoreDrawTargets == {48, 65, 92}

\* records the user can type in Spec: ("", "", "ab") and ("", "", "")
RecordPool == {<< <<>>, <<>>, <<97, 98>> >>, << <<>>, <<>>, <<>> >>}

\* longest password typed in SpecPassRules
MaxPassLen == 8

\* the characters the passwords of SpecPassRules are built from: a lowercase
\* letter, an uppercase letter, a digit and a special character
PassAlphabet == {97, 65, 49, 33}

\* most rows a table gets in SpecClearDb
MaxRows == 2

\* the texts of the rows SpecClearDb inserts
RowPool == {<< <<97>>, <<98>>, <<99>> >>, << <<>>, <<>>, <<48, 48>> >>}

\* the arguments SpecClearDb gives clear_db: the three tables, and two names
\* that are none of them
TableNames == {"passw_table", "key_table", "log_table", "both", "sqlite_sequence"}

\* ------------------------------------------------------- string conversions
MaxCodepoint == 1114111

Whitespace == {9, 10, 11, 12, 13, 28, 29, 30, 31, 32, 133, 160}

Digits == 48..57

RECURSIVE NatToStr(_)
NatToStr(n) ==
    IF n < 10 THEN <<48 + n>> ELSE Append(NatToStr(n \div 10), 48 + (n % 10))

\* str(n) for an int n
IntToStr(n) == IF n < 0 THEN <<45>> \o NatToStr(0 - n) ELSE NatToStr(n)

RECURSIVE DigitsToNat(_)
DigitsToNat(s) ==
    IF s = <<>> THEN 0
    ELSE 10 * DigitsToNat(SubSeq(s, 1, Len(s) - 1)) + (s[Len(s)] - 48)

AllDigits(s) == s # <<>> /\ \A i \in 1..Len(s) : s[i] \in Digits

\* int(tok) for a string without surrounding whitespace: an optional sign and
\* decimal digits, ValueError otherwise
StrToInt(tok) ==
    IF AllDigits(tok) THEN [err |-> "none", val |-> DigitsToNat(tok)]
    ELSE IF tok # <<>> /\ tok[1] = 45 /\ AllDigits(Tail(tok))
         THEN [err |-> "none", val |-> 0 - DigitsToNat(Tail(tok))]
    ELSE IF tok # <<>> /\ tok[1] = 43 /\ AllDigits(Tail(tok))
         THEN [err |-> "none", val |-> DigitsToNat(Tail(tok))]
    ELSE [err |-> "ValueError", val |-> 0]

RECURSIVE Join(_, _)
\* sep.join(list)
Join(list, sep) ==
    IF list = <<>> THEN <<>>
    ELSE IF Len(list) = 1 THEN list[1]
    ELSE list[1] \o sep \o Join(Tail(list), sep)

RECURSIVE SplitFrom(_, _, _)
SplitFrom(s, cur, acc) ==
    IF s = <<>> THEN (IF cur = <<>> THEN acc ELSE Append(acc, cur))
    ELSE IF s[1] \in Whitespace
         THEN SplitFrom(Tail(s), <<>>, IF cur = <<>> THEN acc ELSE Append(acc, cur))
    ELSE SplitFrom(Tail(s), Append(cur, s[1]), acc)

\* s.split(): the maximal runs of non-whitespace characters
Split(s) == SplitFrom(s, <<>>, <<>>)

\* ------------------------------------------------------------ ndv_cypher.py
RandIntLow(lo, hi) == lo..(hi - 96)

RandIntNonNegative(lo, hi) == 0..hi

\* random.randint(lo, hi)
RandInt(lo, hi) == lo..hi

GenCharValidNoUpper(c) == 32 =< c /\ c # 92

\* the test of _gen_char on ord(new_value)
GenCharValid(c) == 32 =< c /\ c < 127 /\ c # 92

ReverseShiftAdds(c, k) == c + k

\* "shift is reversed": int(cipher_list[x]) - int(key[x])
ReverseShift(c, k) == c - k

\* the positions VernamDecrypt.decrypt visits: range(0, len(key))
DecryptLoop(cipher_list, key_list) == 1..Len(key_list)

RECURSIVE DecryptFrom(_, _, _, _)
DecryptFrom(cipher_list, key_list, x, plain_list) ==
    IF x \notin DecryptLoop(cipher_list, key_list)
    THEN [err |-> "none", text |-> plain_list]
    ELSE IF x > Len(cipher_list) THEN [err |-> "IndexError", text |-> <<>>]
    ELSE IF StrToInt(key_list[x]).err # "none" THEN [err |-> "ValueError", text |-> <<>>]
    ELSE LET n == ReverseShift(cipher_list[x], StrToInt(key_list[x]).val)
         IN  IF n < 0 \/ n > MaxCodepoint
             THEN [err |-> "ValueError", text |-> <<>>]
             ELSE DecryptFrom(cipher_list, key_list, x + 1, Append(plain_list, n))

\* VernamDecrypt.decrypt(cipher, keytext): the plaintext, or the exception
\* that ends the call
decrypt(cipher_arg, keytext_arg) ==
    DecryptFrom(cipher_arg, Split(keytext_arg), 1, <<>>)

JoinKeyNoSeparator(key_list) == Join(key_list, <<>>)

\* encr_key = (" ".join(key))
JoinKey(key_list) == Join(key_list, <<32>>)

\* no encrypt call under way: the cipher variables of SpecCipher at rest
CipherIdle ==
    /\ text = <<>> /\ pos = 1 /\ key = <<>> /\ encrypt_list = <<>>
    /\ shift = 0 /\ new_value = <<>> /\ valid = FALSE
    /\ encr_text = <<>> /\ encr_key = <<>>
    /\ cipher = <<>> /\ keytext = <<>>
    /\ plain_text = [err |-> "none", text |-> <<>>]
    /\ cpc = "encrypt"

\* ------------------------------------------ SQLite storage (dbmanager.py)
SqlSpace == {9, 10, 11, 12, 13, 32}

RECURSIVE TrimLeft(_)
TrimLeft(s) ==
    IF s # <<>> /\ s[1] \in SqlSpace THEN TrimLeft(Tail(s)) ELSE s

RECURSIVE TrimRight(_)
TrimRight(s) ==
    IF s # <<>> /\ s[Len(s)] \in SqlSpace
    THEN TrimRight(SubSeq(s, 1, Len(s) - 1)) ELSE s

\* What a SELECT gives back, under str(), for a text bound to a column
\* declared "STR".  The declared type gives the column NUMERIC affinity, so a
\* text that is an integer literal (optional blanks around an optional sign
\* and digits) is stored as that integer and comes back as str(int); any
\* other text comes back unchanged.  The draws of Spec produce no '.', 'e'
\* or 'E', so real literals do not arise here.  Every read in the code goes
\* through str() (recordmanager.py:135, :167; ndv_cypher.py:160).
StrColumn(s) ==
    LET t == TrimRight(TrimLeft(s))
    IN  IF StrToInt(t).err = "none" THEN IntToStr(StrToInt(t).val) ELSE s

RECURSIVE MaxId(_)
MaxId(table) ==
    IF table = <<>> THEN 0
    ELSE LET m == MaxId(Tail(table))
         IN  IF table[1][1] > m THEN table[1][1] ELSE m

\* the personID an INSERT gets from INTEGER PRIMARY KEY AUTOINCREMENT
NextId(table, seq) == (IF seq > MaxId(table) THEN seq ELSE MaxId(table)) + 1

\* the row write_to_main / write_to_keys inserts
InsertRow(table, seq, a, b, c) ==
    Append(table, <<NextId(table, seq), StrColumn(a), StrColumn(b), StrColumn(c)>>)

\* write_to_log inserts into log_table the same way
InsertLogRow(table, seq, a, b, c) == InsertRow(table, seq, a, b, c)

\* the three tables and their SQLITE_SEQUENCE entries as one value
Store ==
    [passw_table |-> passw_table, key_table |-> key_table, log_table |-> log_table,
     passw_seq |-> passw_seq, key_seq |-> key_seq, log_seq |-> log_seq]

EmptyStore ==
    [passw_table |-> <<>>, key_table |-> <<>>, log_table |-> <<>>,
     passw_seq |-> 0, key_seq |-> 0, log_seq |-> 0]

clear_db_keeps_sequence(table, store) ==
    IF table = "passw_table" THEN [store EXCEPT !.passw_table = <<>>]
    ELSE IF table = "key_table" THEN [store EXCEPT !.key_table = <<>>]
    ELSE IF table = "log_table" THEN [store EXCEPT !.log_table = <<>>]
    ELSE store

\* clear_db(table) run to its end: DELETE FROM the table and DELETE FROM
\* SQLITE_SEQUENCE WHERE name = the table, for the three names it knows
clear_db(table, store) ==
    IF table = "passw_table"
    THEN [store EXCEPT !.passw_table = <<>>, !.passw_seq = 0]
    ELSE IF table = "key_table"
    THEN [store EXCEPT !.key_table = <<>>, !.key_seq = 0]
    ELSE IF table = "log_table"
    THEN [store EXCEPT !.log_table = <<>>, !.log_seq = 0]
    ELSE store

\* no database call made yet: the variables of SpecClearDb at rest
DbIdle ==
    /\ log_table = <<>> /\ log_seq = 0
    /\ cleared = "none" /\ before = EmptyStore

RECURSIVE append_to_list(_, _)
\* box gets every fetched item that is not already in it
append_to_list(box, items) ==
    IF items = <<>> THEN box
    ELSE append_to_list(
             IF \E i \in 1..Len(box) : box[i] = items[1] THEN box
             ELSE Append(box, items[1]),
             Tail(items))

read_all_from_db_one_cursor ==
    [databox |-> append_to_list(<<>>, passw_table),
     keybox  |-> append_to_list(append_to_list(<<>>, passw_table), <<>>)]

\* read_all_from_db: the second fetchall on the key cursor returns nothing
read_all_from_db ==
    [databox |-> append_to_list(<<>>, passw_table),
     keybox  |-> append_to_list(append_to_list(<<>>, key_table), <<>>)]

\* check_db: go_ahead for the two lists read
check_db(databox, keybox) ==
    IF databox = <<>> /\ keybox # <<>> THEN 0
    ELSE IF databox # <<>> /\ keybox # <<>> THEN 1
    ELSE 2

\* ------------------------------------------------------- recordmanager.py
\* the pairs <<new_value, shift>> _gen_char can return for val on the draws
\* the model follows
gen_char(val) ==
    {<<val + sh, sh>> : sh \in {d \in RandInt(0 - val, 127 - val) :
                                    /\ val + d \in StoreDrawTargets
                                    /\ GenCharValid(val + d)}}

RECURSIVE EncryptLists(_)
\* the pairs of lists (encrypt_list, key) encrypt can build for a text
EncryptLists(s) ==
    IF s = <<>> THEN {[encrypt_list |-> <<>>, key |-> <<>>]}
    ELSE {[encrypt_list |-> <<(<<g[1]>>)>> \o r.encrypt_list,
           key |-> <<IntToStr(g[2])>> \o r.key] :
              g \in gen_char(s[1]), r \in EncryptLists(Tail(s))}

\* the pairs <<encr_text, encr_key>> VernamEncrypt.encrypt can return
encrypt(s) ==
    {<<Join(l.encrypt_list, <<>>), JoinKey(l.key)>> : l \in EncryptLists(s)}

RECURSIVE EncryptFields(_)
\* encr_list and key_list for the fields of one record, field by field
EncryptFields(record) ==
    IF record = <<>> THEN {[encr_list |-> <<>>, key_list |-> <<>>]}
    ELSE {[encr_list |-> <<e[1]>> \o r.encr_list,
           key_list |-> <<e[2]>> \o r.key_list] :
              e \in encrypt(record[1]), r \in EncryptFields(Tail(record))}

\* record_encryption for one record: the tuples of the first three entries
\* of encr_list and key_list.  record_encryption reads no table and its draws
\* are independent, so the model makes the draws of a record when the loop of
\* write_encrypted reaches that record.
EncryptRecord(record) ==
    {[encr_tuple |-> <<f.encr_list[1], f.encr_list[2], f.encr_list[3]>>,
      key_tuple |-> <<f.key_list[1], f.key_list[2], f.key_list[3]>>] :
         f \in EncryptFields(record)}

RECURSIVE DecryptRows(_, _, _, _)
\* the loop of db_decryption over the aligned lists: the decrypted tuples, or
\* the exception decrypt ended with
DecryptRows(databox, keybox, i, records) ==
    IF i > Len(databox) THEN [err |-> "none", records |-> records]
    ELSE LET d1 == decrypt(databox[i][2], keybox[i][2])
             d2 == decrypt(databox[i][3], keybox[i][3])
             d3 == decrypt(databox[i][4], keybox[i][4])
         IN  IF d1.err # "none" THEN [err |-> d1.err, records |-> <<>>]
             ELSE IF d2.err # "none" THEN [err |-> d2.err, records |-> <<>>]
             ELSE IF d3.err # "none" THEN [err |-> d3.err, records |-> <<>>]
             ELSE DecryptRows(databox, keybox, i + 1,
                              Append(records, <<d1.text, d2.text, d3.text>>))

\* a stored row as the tuple db_decryption hands back undecoded; each entry
\* is represented by its str()
RawRecord(row) == <<IntToStr(row[1]), row[2], row[3], row[4]>>

RawRecords(databox) == [i \in 1..Len(databox) |-> RawRecord(databox[i])]

\* db_decryption, given the answer to the "Clear 'key_table'?" prompt:
\* the records returned (or the exception raised) and whether key_table is
\* cleared
db_decryption(answer) ==
    LET databox == read_all_from_db.databox
        keybox == read_all_from_db.keybox
        go_ahead == check_db(databox, keybox)
    IN  IF go_ahead = 1
        THEN IF Len(databox) = Len(keybox)
             THEN [err |-> DecryptRows(databox, keybox, 1, <<>>).err,
                   records |-> DecryptRows(databox, keybox, 1, <<>>).records,
                   clear_key |-> FALSE]
             ELSE [err |-> "none", records |-> <<>>, clear_key |-> FALSE]
        ELSE IF go_ahead = 0
        THEN [err |-> "none", records |-> <<>>, clear_key |-> answer = "yes"]
        ELSE [err |-> "none", records |-> RawRecords(databox), clear_key |-> FALSE]

\* the branch of check_db / db_decryption a pair of lists takes, under the
\* names of the consistency states: go_ahead 0 is OrphanKeys, go_ahead 1 is
\* Aligned or Mismatch by the lengths, go_ahead 2 is the branch that goes on
\* without a message
CheckState(databox, keybox) ==
    IF check_db(databox, keybox) = 0 THEN "OrphanKeys"
    ELSE IF check_db(databox, keybox) = 1
         THEN (IF Len(databox) = Len(keybox) THEN "Aligned" ELSE "Mismatch")
    ELSE "Empty"

\* dict(enumerate(records, start=1))
Enumerate(records) == [i \in 1..Len(records) |-> <<i, records[i]>>]

DictKeys(dict) == {dict[i][1] : i \in 1..Len(dict)}

DictValues(dict) == [i \in 1..Len(dict) |-> dict[i][2]]

\* dict[k] = v: in place for an existing key, at the end for a new one
DictSet(dict, k, v) ==
    IF k \in DictKeys(dict)
    THEN [i \in 1..Len(dict) |-> IF dict[i][1] = k THEN <<k, v>> ELSE dict[i]]
    ELSE Append(dict, <<k, v>>)

\* del dict[k]
DictDel(dict, k) == SelectSeq(dict, LAMBDA e : e[1] # k)

\* ------------------------------------------------------------ security.py
\* generate_ascii_lists: the four lists of characters
upper_list == 65..90

lower_list == 97..122

digits_list == 48..57

special_list == (32..47) \cup (58..64) \cup (91..96) \cup (123..126)

\* the length below which pass_rules shows "Your password must contain at
\* least 8 characters."
MinPassLen == 8

RECURSIVE Met(_)
\* the loop over conditions: met counts the conditions before the first one
\* that is not met
Met(conditions) ==
    IF conditions = <<>> THEN 0
    ELSE IF ~conditions[1] THEN 0
    ELSE 1 + Met(Tail(conditions))

\* pass_rules(pass_text, win): the value returned and the error boxes shown
pass_rules(t) ==
    LET upper == \E i \in 1..Len(t) : t[i] \in upper_list
        lower == \E i \in 1..Len(t) : t[i] \in lower_list
        digit == \E i \in 1..Len(t) : t[i] \in digits_list
        special == \E i \in 1..Len(t) : t[i] \in special_list
        met == Met(<<upper, lower, digit, special>>)
    IN  [secure_pass |-> met = 4,
         shown |-> (IF Len(t) < MinPassLen THEN {"length"} ELSE {})
                       \cup (IF met < 4 THEN {"characters"} ELSE {})]

\* the value pass_rules returned, as secure_pass records it
BoolToStr(b) == IF b THEN "True" ELSE "False"

NoPassword == [written |-> FALSE, text |-> <<>>]

\* no call made yet: the variables of SpecPassRules at rest
PassIdle ==
    /\ pass_text = <<>> /\ secure_pass = "none" /\ shown = {}
    /\ user_password = NoPassword /\ ppc = "entry"

\* ------------------------------------------------------ Spec: the actions
Tables == <<passw_table, key_table>>

\* the control points inside the clear-and-rewrite of the two tables
WritePcs == {"we_clear_key", "we_clear_passw", "we_write_main", "we_write_keys",
             "we_done"}

NoSave == [complete |-> FALSE, R |-> <<>>]

\* the state of a process that is not running
ProcessDown ==
    /\ record_dict' = <<>> /\ unsaved_changes' = FALSE /\ stopped' = FALSE
    /\ auto_lock' = FALSE /\ autosave_id' = FALSE
    /\ to_write' = <<>> /\ key_row' = <<>> /\ wx' = 0 /\ preserve' = FALSE
    /\ pre_rows' = <<0, 0>>
    /\ caller' = "none"
    /\ load_state' = "none" /\ load_err' = "none" /\ repair' = "none"
    /\ pc' = "off"

AppIdle ==
    /\ passw_table = <<>> /\ key_table = <<>> /\ passw_seq = 0 /\ key_seq = 0
    /\ record_dict = <<>> /\ unsaved_changes = FALSE /\ stopped = FALSE
    /\ auto_lock = FALSE /\ autosave_id = FALSE
    /\ to_write = <<>> /\ key_row = <<>> /\ wx = 0 /\ preserve = FALSE
    /\ pre_rows = <<0, 0>>
    /\ caller = "none"
    /\ load_state = "none" /\ load_err = "none" /\ repair = "none"
    /\ stopped_at = "none"
    /\ saved = NoSave
    /\ crashes = 0
    /\ pc = "off"

\* the module-level instantiation and wm.startup(): the login window is up
StartUp ==
    /\ pc = "off"
    /\ pc' = "login"
    /\ UNCHANGED <<storevars, memvars, wevars, loadvars, saved>>

\* MainWindow.__init__ up to create_dict: read both tables, check, decode
Load ==
    /\ pc = "login"
    /\ LET databox == read_all_from_db.databox
           keybox == read_all_from_db.keybox
       IN  \E answer \in (IF check_db(databox, keybox) = 0
                          THEN {"yes", "no"} ELSE {"none"}) :
             LET r == db_decryption(answer)
             IN  /\ load_state' = CheckState(databox, keybox)
                 /\ load_err' = r.err
                 /\ repair' = IF CheckState(databox, keybox) \in {"Mismatch", "OrphanKeys"}
                               THEN (IF r.clear_key THEN "confirmed" ELSE "pending")
                               ELSE "none"
                 /\ IF r.clear_key
                    THEN key_table' = <<>> /\ key_seq' = 0 /\ saved' = NoSave
                    ELSE UNCHANGED <<key_table, key_seq, saved>>
                 /\ IF r.err = "none"
                    THEN record_dict' = Enumerate(r.records) /\ pc' = "init_autosave"
                    ELSE record_dict' = <<>> /\ pc' = "broken"
    /\ UNCHANGED <<passw_table, passw_seq, unsaved_changes, stopped, auto_lock,
                   autosave_id, wevars, stopped_at>>

\* write_encrypted up to the first commit
BeginWrite(pres, who) ==
    /\ to_write' = DictValues(record_dict)
    /\ key_row' = <<>>
    /\ wx' = 0 /\ preserve' = pres /\ caller' = who
    /\ pre_rows' = <<Len(passw_table), Len(key_table)>>
    /\ saved' = [complete |-> FALSE, R |-> DictValues(record_dict)]
    /\ pc' = "we_clear_key"

auto_save_records_ignores_stopped ==
    /\ IF auto_lock
       THEN /\ pc' = "blocked"
            /\ UNCHANGED <<auto_lock, wevars, saved>>
       ELSE /\ auto_lock' = TRUE
            /\ BeginWrite(TRUE, "autosave")
    /\ load_state' = "none" /\ stopped_at' = "none"

\* auto_save_records up to the first commit of write_encrypted
auto_save_records ==
    /\ IF auto_lock
       THEN /\ pc' = "blocked"
            /\ UNCHANGED <<auto_lock, wevars, saved>>
       ELSE /\ auto_lock' = TRUE
            /\ IF stopped
               THEN /\ pc' = "idle"
                    /\ UNCHANGED <<wevars, saved>>
               ELSE BeginWrite(TRUE, "autosave")
    /\ load_state' = "none" /\ stopped_at' = "none"

\* MainWindow.__init__ calls wm.auto_save_records
AutoSaveInit ==
    /\ pc = "init_autosave"
    /\ auto_save_records
    /\ UNCHANGED <<storevars, record_dict, unsaved_changes, stopped, autosave_id,
                   load_err, repair>>

\* the scheduled tick calls auto_save_records
AutoSaveTick ==
    /\ pc = "idle" /\ autosave_id
    /\ autosave_id' = FALSE
    /\ auto_save_records
    /\ UNCHANGED <<storevars, record_dict, unsaved_changes, stopped, load_err, repair>>

ClearKeyTableSkipped ==
    /\ pc = "we_clear_key"
    /\ pc' = "we_clear_passw"
    /\ UNCHANGED <<storevars, memvars, wevars, loadvars, saved>>

\* clear_db("key_table"): DELETE FROM key_table and DELETE FROM
\* SQLITE_SEQUENCE, each committed
ClearKeyTable ==
    /\ pc = "we_clear_key"
    /\ key_table' = <<>>
    /\ key_seq' = 0
    /\ pc' = "we_clear_passw"
    /\ UNCHANGED <<passw_table, passw_seq, memvars, wevars, loadvars, saved>>

\* clear_db("passw_table"), likewise; then clear_records clears the
\* dictionary unless it is preserved
ClearPasswTable ==
    /\ pc = "we_clear_passw"
    /\ passw_table' = <<>>
    /\ passw_seq' = 0
    /\ record_dict' = IF preserve THEN record_dict ELSE <<>>
    /\ pc' = IF wx < Len(to_write) THEN "we_write_main" ELSE "we_done"
    /\ saved' = IF Len(to_write) = 0 /\ caller # "clear"
                THEN [saved EXCEPT !.complete = TRUE] ELSE saved
    /\ UNCHANGED <<key_table, key_seq, unsaved_changes, stopped, auto_lock,
                   autosave_id, wevars, loadvars>>

\* write_to_main(sitetext, untext, pwtext), commit
WriteToMain ==
    /\ pc = "we_write_main"
    /\ \E e \in EncryptRecord(to_write[wx + 1]) :
          /\ passw_table' = InsertRow(passw_table, passw_seq, e.encr_tuple[1],
                                      e.encr_tuple[2], e.encr_tuple[3])
          /\ key_row' = e.key_tuple
    /\ passw_seq' = NextId(passw_table, passw_seq)
    /\ pc' = "we_write_keys"
    /\ UNCHANGED <<key_table, key_seq, memvars, to_write, wx, preserve, pre_rows,
                   caller, loadvars, saved>>

\* write_to_keys(sitekey, unkey, pwkey), commit; next x
WriteToKeys ==
    /\ pc = "we_write_keys"
    /\ key_table' = InsertRow(key_table, key_seq, key_row[1], key_row[2], key_row[3])
    /\ key_row' = <<>>
    /\ key_seq' = NextId(key_table, key_seq)
    /\ wx' = wx + 1
    /\ pc' = IF wx + 1 < Len(to_write) THEN "we_write_main" ELSE "we_done"
    /\ saved' = IF wx + 1 < Len(to_write) THEN saved
                ELSE [saved EXCEPT !.complete = TRUE]
    /\ UNCHANGED <<passw_table, passw_seq, memvars, to_write, preserve, pre_rows,
                   caller, loadvars>>

\* auto_save_records after write_encrypted: flag, release, schedule
AutoSaveFinish ==
    /\ pc = "we_done" /\ caller = "autosave"
    /\ unsaved_changes' = FALSE
    /\ auto_lock' = FALSE
    /\ autosave_id' = TRUE
    /\ to_write' = <<>> /\ key_row' = <<>> /\ wx' = 0 /\ preserve' = FALSE
    /\ pre_rows' = <<0, 0>>
    /\ caller' = "none"
    /\ pc' = "idle"
    /\ UNCHANGED <<storevars, record_dict, stopped, loadvars, saved>>

\* MainWindow.save_records up to the first commit of write_encrypted
SaveRecords ==
    /\ pc = "idle"
    /\ BeginWrite(TRUE, "save")
    /\ UNCHANGED <<storevars, memvars, loadvars>>

\* MainWindow.save_records after write_encrypted
SaveFinish ==
    /\ pc = "we_done" /\ caller = "save"
    /\ to_write' = <<>> /\ key_row' = <<>> /\ wx' = 0 /\ preserve' = FALSE
    /\ pre_rows' = <<0, 0>>
    /\ caller' = "none"
    /\ pc' = "idle"
    /\ UNCHANGED <<storevars, memvars, loadvars, saved>>

\* the choices of the export menu
ExportOptions == {"CSV", "SQL Database", "JSON", "XML", "HTML"}

\* the exports that call write_encrypted(record_dict, preserve=True) before
\* they write the file: export_as_csv (once a file name is chosen) and
\* export_as_sql_db
ExportSavesFirst(option) == option \in {"CSV", "SQL Database"}

\* wm.export(choice, ...) with a file name chosen, up to the first commit of
\* write_encrypted; the file written is outside the two tables
Export ==
    /\ pc = "idle"
    /\ \E option \in ExportOptions :
          IF ExportSavesFirst(option)
          THEN BeginWrite(TRUE, "export")
          ELSE UNCHANGED <<wevars, saved, pc>>
    /\ UNCHANGED <<storevars, memvars, loadvars>>

\* the export after write_encrypted: the file is written
ExportFinish ==
    /\ pc = "we_done" /\ caller = "export"
    /\ to_write' = <<>> /\ key_row' = <<>> /\ wx' = 0 /\ preserve' = FALSE
    /\ pre_rows' = <<0, 0>>
    /\ caller' = "none"
    /\ pc' = "idle"
    /\ UNCHANGED <<storevars, memvars, loadvars, saved>>

\* MainWindow.clear_records: clear_records("both", "main", record_dict)
ClearRecords ==
    /\ pc = "idle"
    /\ \E result \in {"yes", "no"} :
          IF result = "yes"
          THEN /\ repair' = (IF repair = "pending" THEN "confirmed" ELSE repair)
               /\ to_write' = <<>> /\ key_row' = <<>> /\ wx' = 0
               /\ preserve' = FALSE /\ caller' = "clear"
               /\ pre_rows' = <<Len(passw_table), Len(key_table)>>
               /\ saved' = NoSave
               /\ pc' = "we_clear_key"
          ELSE UNCHANGED <<repair, wevars, saved, pc>>
    /\ UNCHANGED <<storevars, memvars, load_state, load_err, stopped_at>>

\* clear_records returns to the main loop
ClearFinish ==
    /\ pc = "we_done" /\ caller = "clear"
    /\ caller' = "none"
    /\ pc' = "idle"
    /\ UNCHANGED <<storevars, memvars, to_write, key_row, wx, preserve, pre_rows,
                   loadvars, saved>>

\* add_new_record, confirmed: record_dict[len(record_dict) + 1] = record
AddRecord ==
    /\ pc = "idle" /\ Len(record_dict) < MaxRecords
    /\ \E record \in RecordPool :
          record_dict' = DictSet(record_dict, Len(record_dict) + 1, record)
    /\ UNCHANGED <<storevars, unsaved_changes, stopped, auto_lock, autosave_id,
                   wevars, loadvars, saved, pc>>

\* change_record, confirmed
ChangeRecord ==
    /\ pc = "idle"
    /\ \E index \in DictKeys(record_dict), record \in RecordPool :
          record_dict' = DictSet(record_dict, index, record)
    /\ unsaved_changes' = TRUE
    /\ UNCHANGED <<storevars, stopped, auto_lock, autosave_id, wevars, loadvars,
                   saved, pc>>

\* delete_record, confirmed
DeleteRecord ==
    /\ pc = "idle"
    /\ \E index \in DictKeys(record_dict) :
          record_dict' = DictDel(record_dict, index)
    /\ unsaved_changes' = TRUE
    /\ UNCHANGED <<storevars, stopped, auto_lock, autosave_id, wevars, loadvars,
                   saved, pc>>

\* close: the branches that shut down without saving (no unsaved changes, or
\* the prompt answered No): acquire, stop_auto_save, conn.close, destroy,
\* release
CloseNoSave ==
    /\ pc = "idle"
    /\ \E result \in {"no"} :
          IF auto_lock
          THEN /\ pc' = "blocked"
               /\ UNCHANGED <<memvars, wevars, loadvars>>
          ELSE ProcessDown /\ stopped_at' = "none"
    /\ UNCHANGED <<storevars, saved>>

CloseSaveUnlocked ==
    /\ pc \in {"idle"} \cup WritePcs /\ unsaved_changes
    /\ auto_lock' = TRUE
    /\ stopped' = TRUE
    /\ autosave_id' = FALSE
    /\ BeginWrite(FALSE, "close")
    /\ UNCHANGED <<record_dict, unsaved_changes>>
    /\ UNCHANGED <<storevars, loadvars>>

\* close with unsaved changes and the prompt answered Yes: acquire,
\* stop_auto_save, then write_encrypted(record_dict)
CloseSave ==
    /\ pc = "idle" /\ unsaved_changes
    /\ IF auto_lock
       THEN /\ pc' = "blocked"
            /\ UNCHANGED <<memvars, wevars, saved>>
       ELSE /\ auto_lock' = TRUE
            /\ stopped' = TRUE
            /\ autosave_id' = FALSE
            /\ BeginWrite(FALSE, "close")
            /\ UNCHANGED <<record_dict, unsaved_changes>>
    /\ UNCHANGED <<storevars, loadvars>>

\* close after write_encrypted: conn.close, destroy, release
CloseFinish ==
    /\ pc = "we_done" /\ caller = "close"
    /\ ProcessDown /\ stopped_at' = "none"
    /\ UNCHANGED <<storevars, saved>>

\* log_out: every answer to the prompt takes the same steps: acquire,
\* stop_auto_save, destroy, release, wm.startup()
LogOut ==
    /\ pc = "idle"
    /\ \E result \in {"yes", "no", "cancel"} :
          IF auto_lock
          THEN /\ pc' = "blocked"
               /\ UNCHANGED <<record_dict, stopped, autosave_id, loadvars>>
          ELSE /\ stopped' = TRUE
               /\ autosave_id' = FALSE
               /\ record_dict' = <<>>
               /\ load_state' = "none" /\ load_err' = "none" /\ repair' = "none"
               /\ stopped_at' = "none"
               /\ pc' = "login"
    /\ UNCHANGED <<storevars, unsaved_changes, auto_lock, wevars, saved>>

\* the process is stopped while a clear-and-rewrite of the tables is under
\* way; the tables keep what was committed.  (Stopping it at any other point
\* leaves the tables as they are, like CloseNoSave.)
Crash ==
    /\ pc \in WritePcs /\ crashes < MaxCrashes
    /\ ProcessDown /\ stopped_at' = pc
    /\ crashes' = crashes + 1
    /\ UNCHANGED <<storevars, saved>>

\* the user ends a process that hangs on auto_lock or whose main window
\* never came up
Kill ==
    /\ pc \in {"blocked", "broken"}
    /\ ProcessDown /\ stopped_at' = "none"
    /\ UNCHANGED <<storevars, saved, crashes>>

Init == AppIdle /\ CipherIdle /\ DbIdle /\ PassIdle

Next ==
    \/ (StartUp /\ UNCHANGED <<cvars, crashes, dbvars, pvars>>)
    \/ (Load /\ UNCHANGED <<cvars, crashes, dbvars, pvars>>)
    \/ (AutoSaveInit /\ UNCHANGED <<cvars, crashes, dbvars, pvars>>)
    \/ (AutoSaveTick /\ UNCHANGED <<cvars, crashes, dbvars, pvars>>)
    \/ (ClearKeyTable /\ UNCHANGED <<cvars, crashes, dbvars, pvars>>)
    \/ (ClearPasswTable /\ UNCHANGED <<cvars, crashes, dbvars, pvars>>)
    \/ (WriteToMain /\ UNCHANGED <<cvars, crashes, dbvars, pvars>>)
    \/ (WriteToKeys /\ UNCHANGED <<cvars, crashes, dbvars, pvars>>)
    \/ (AutoSaveFinish /\ UNCHANGED <<cvars, crashes, dbvars, pvars>>)
    \/ (SaveRecords /\ UNCHANGED <<cvars, crashes, dbvars, pvars>>)
    \/ (SaveFinish /\ UNCHANGED <<cvars, crashes, dbvars, pvars>>)
    \/ (Export /\ UNCHANGED <<cvars, crashes, dbvars, pvars>>)
    \/ (ExportFinish /\ UNCHANGED <<cvars, crashes, dbvars, pvars>>)
    \/ (ClearRecords /\ UNCHANGED <<cvars, crashes, dbvars, pvars>>)
    \/ (ClearFinish /\ UNCHANGED <<cvars, crashes, dbvars, pvars>>)
    \/ (AddRecord /\ UNCHANGED <<cvars, crashes, dbvars, pvars>>)
    \/ (ChangeRecord /\ UNCHANGED <<cvars, crashes, dbvars, pvars>>)
    \/ (DeleteRecord /\ UNCHANGED <<cvars, crashes, dbvars, pvars>>)
    \/ (CloseNoSave /\ UNCHANGED <<cvars, crashes, dbvars, pvars>>)
    \/ (CloseSave /\ UNCHANGED <<cvars, crashes, dbvars, pvars>>)
    \/ (CloseFinish /\ UNCHANGED <<cvars, crashes, dbvars, pvars>>)
    \/ (LogOut /\ UNCHANGED <<cvars, crashes, dbvars, pvars>>)
    \/ (Crash /\ UNCHANGED <<cvars, dbvars, pvars>>)
    \/ (Kill /\ UNCHANGED <<cvars, dbvars, pvars>>)

\* the steps of the program while no process is stopped inside a
\* clear-and-rewrite
NextSession ==
    \/ (StartUp /\ UNCHANGED <<cvars, crashes, dbvars, pvars>>)
    \/ (Load /\ UNCHANGED <<cvars, crashes, dbvars, pvars>>)
    \/ (AutoSaveInit /\ UNCHANGED <<cvars, crashes, dbvars, pvars>>)
    \/ (AutoSaveTick /\ UNCHANGED <<cvars, crashes, dbvars, pvars>>)
    \/ (ClearKeyTable /\ UNCHANGED <<cvars, crashes, dbvars, pvars>>)
    \/ (ClearPasswTable /\ UNCHANGED <<cvars, crashes, dbvars, pvars>>)
    \/ (WriteToMain /\ UNCHANGED <<cvars, crashes, dbvars, pvars>>)
    \/ (WriteToKeys /\ UNCHANGED <<cvars, crashes, dbvars, pvars>>)
    \/ (AutoSaveFinish /\ UNCHANGED <<cvars, crashes, dbvars, pvars>>)
    \/ (SaveRecords /\ UNCHANGED <<cvars, crashes, dbvars, pvars>>)
    \/ (SaveFinish /\ UNCHANGED <<cvars, crashes, dbvars, pvars>>)
    \/ (Export /\ UNCHANGED <<cvars, crashes, dbvars, pvars>>)
    \/ (ExportFinish /\ UNCHANGED <<cvars, crashes, dbvars, pvars>>)
    \/ (ClearRecords /\ UNCHANGED <<cvars, crashes, dbvars, pvars>>)
    \/ (ClearFinish /\ UNCHANGED <<cvars, crashes, dbvars, pvars>>)
    \/ (AddRecord /\ UNCHANGED <<cvars, crashes, dbvars, pvars>>)
    \/ (ChangeRecord /\ UNCHANGED <<cvars, crashes, dbvars, pvars>>)
    \/ (DeleteRecord /\ UNCHANGED <<cvars, crashes, dbvars, pvars>>)
    \/ (CloseNoSave /\ UNCHANGED <<cvars, crashes, dbvars, pvars>>)
    \/ (CloseSave /\ UNCHANGED <<cvars, crashes, dbvars, pvars>>)
    \/ (CloseFinish /\ UNCHANGED <<cvars, crashes, dbvars, pvars>>)
    \/ (LogOut /\ UNCHANGED <<cvars, crashes, dbvars, pvars>>)
    \/ (Kill /\ UNCHANGED <<cvars, dbvars, pvars>>)

\* the steps of the program up to the load that follows the first process
\* stop inside a clear-and-rewrite
NextFirstCrash ==
    \/ (crashes = 0 /\ NextSession)
    \/ (Crash /\ UNCHANGED <<cvars, dbvars, pvars>>)
    \/ (crashes > 0 /\ StartUp /\ UNCHANGED <<cvars, crashes, dbvars, pvars>>)
    \/ (crashes > 0 /\ Load /\ UNCHANGED <<cvars, crashes, dbvars, pvars>>)

\* ------------------------------------------------- SpecCipher: the actions
Strings == UNION {[1..n -> Alphabet] : n \in 0..MaxLen}

\* the draws of random.randint(0 - val, 127 - val) the model follows
Draws(val) ==
    IF Len(text) = 1 THEN RandInt(0 - val, 127 - val)
    ELSE {sh \in RandInt(0 - val, 127 - val) : val + sh \in DrawTargets}

InitCipher ==
    /\ AppIdle /\ DbIdle /\ PassIdle
    /\ text \in Strings
    /\ pos = 1 /\ key = <<>> /\ encrypt_list = <<>>
    /\ shift = 0 /\ new_value = <<>> /\ valid = FALSE
    /\ encr_text = <<>> /\ encr_key = <<>>
    /\ cipher = <<>> /\ keytext = <<>>
    /\ plain_text = [err |-> "none", text |-> <<>>]
    /\ cpc = "encrypt"

\* encrypt, for loop: the next character enters _gen_char
EncryptNextChar ==
    /\ cpc = "encrypt" /\ pos =< Len(text)
    /\ shift' = 0 /\ new_value' = <<>> /\ valid' = FALSE
    /\ cpc' = "gen_char"
    /\ UNCHANGED <<text, pos, key, encrypt_list, encr_text, encr_key, cipher,
                   keytext, plain_text>>

\* _gen_char: one iteration of "while not valid"
GenCharDraw ==
    /\ cpc = "gen_char" /\ ~valid
    /\ \E sh \in Draws(text[pos]) :
          /\ shift' = sh
          /\ new_value' = <<text[pos] + sh>>
          /\ valid' = GenCharValid(text[pos] + sh)
    /\ UNCHANGED <<text, pos, key, encrypt_list, encr_text, encr_key, cipher,
                   keytext, plain_text, cpc>>

\* _gen_char returns; encrypt appends str(shift) and the character
GenCharReturn ==
    /\ cpc = "gen_char" /\ valid
    /\ key' = Append(key, IntToStr(shift))
    /\ encrypt_list' = Append(encrypt_list, new_value)
    /\ pos' = pos + 1
    /\ cpc' = "encrypt"
    /\ UNCHANGED <<text, shift, new_value, valid, encr_text, encr_key, cipher,
                   keytext, plain_text>>

\* encrypt joins the lists and returns
EncryptReturn ==
    /\ cpc = "encrypt" /\ pos > Len(text)
    /\ encr_text' = Join(encrypt_list, <<>>)
    /\ encr_key' = JoinKey(key)
    /\ cpc' = "returned"
    /\ UNCHANGED <<text, pos, key, encrypt_list, shift, new_value, valid,
                   cipher, keytext, plain_text>>

\* decrypt called with the pair encrypt returned
DecryptPair ==
    /\ cpc = "returned"
    /\ cipher' = encr_text /\ keytext' = encr_key
    /\ plain_text' = decrypt(encr_text, encr_key)
    /\ cpc' = "decrypted"
    /\ UNCHANGED <<text, pos, key, encrypt_list, shift, new_value, valid,
                   encr_text, encr_key>>

\* key texts with fewer or more shifts than the ciphertext has characters
MalformedKeys ==
    {JoinKey(SubSeq(key, 1, n)) : n \in 0..(Len(key) - 1)}
        \cup {JoinKey(Append(key, IntToStr(e))) : e \in {0 - 3, 0, 40}}

\* decrypt called with the ciphertext and a key of another length
DecryptMalformed ==
    /\ cpc = "returned"
    /\ \E k \in MalformedKeys :
          /\ cipher' = encr_text /\ keytext' = k
          /\ plain_text' = decrypt(encr_text, k)
    /\ cpc' = "decrypted"
    /\ UNCHANGED <<text, pos, key, encrypt_list, shift, new_value, valid,
                   encr_text, encr_key>>

\* an iteration of "while not valid" whose draw passes the test
GenCharAccept == GenCharDraw /\ valid'

NextCipher ==
    \/ (EncryptNextChar /\ UNCHANGED <<avars, dbvars, pvars>>)
    \/ (GenCharDraw /\ UNCHANGED <<avars, dbvars, pvars>>)
    \/ (GenCharReturn /\ UNCHANGED <<avars, dbvars, pvars>>)
    \/ (EncryptReturn /\ UNCHANGED <<avars, dbvars, pvars>>)
    \/ (DecryptPair /\ UNCHANGED <<avars, dbvars, pvars>>)
    \/ (DecryptMalformed /\ UNCHANGED <<avars, dbvars, pvars>>)

\* ------------------------------------------------ SpecClearDb: the actions
appframe == <<memvars, wevars, loadvars, saved, crashes, pc>>

\* write_to_main(sitetext, untext, pwtext)
DbWriteToMain ==
    /\ Len(passw_table) < MaxRows
    /\ \E r \in RowPool :
          passw_table' = InsertRow(passw_table, passw_seq, r[1], r[2], r[3])
    /\ passw_seq' = NextId(passw_table, passw_seq)
    /\ cleared' = "none" /\ before' = EmptyStore
    /\ UNCHANGED <<key_table, key_seq, log_table, log_seq>>

\* write_to_keys(sitetext, untext, pwtext)
DbWriteToKeys ==
    /\ Len(key_table) < MaxRows
    /\ \E r \in RowPool :
          key_table' = InsertRow(key_table, key_seq, r[1], r[2], r[3])
    /\ key_seq' = NextId(key_table, key_seq)
    /\ cleared' = "none" /\ before' = EmptyStore
    /\ UNCHANGED <<passw_table, passw_seq, log_table, log_seq>>

\* write_to_log(date, user, success)
DbWriteToLog ==
    /\ Len(log_table) < MaxRows
    /\ \E r \in RowPool :
          log_table' = InsertLogRow(log_table, log_seq, r[1], r[2], r[3])
    /\ log_seq' = NextId(log_table, log_seq)
    /\ cleared' = "none" /\ before' = EmptyStore
    /\ UNCHANGED <<passw_table, passw_seq, key_table, key_seq>>

\* clear_db(table)
DbClearDb ==
    \E table \in TableNames :
        LET s == clear_db(table, Store)
        IN  /\ passw_table' = s.passw_table /\ passw_seq' = s.passw_seq
            /\ key_table' = s.key_table /\ key_seq' = s.key_seq
            /\ log_table' = s.log_table /\ log_seq' = s.log_seq
            /\ cleared' = table /\ before' = Store

NextClearDb ==
    \/ (DbWriteToMain /\ UNCHANGED <<cvars, appframe, pvars>>)
    \/ (DbWriteToKeys /\ UNCHANGED <<cvars, appframe, pvars>>)
    \/ (DbWriteToLog /\ UNCHANGED <<cvars, appframe, pvars>>)
    \/ (DbClearDb /\ UNCHANGED <<cvars, appframe, pvars>>)

\* ---------------------------------------------- SpecPassRules: the actions
PassStrings == UNION {[1..n -> PassAlphabet] : n \in 0..MaxPassLen}

InitPassRules ==
    /\ AppIdle /\ CipherIdle /\ DbIdle
    /\ pass_text \in PassStrings
    /\ secure_pass = "none" /\ shown = {}
    /\ user_password = NoPassword /\ ppc = "entry"

\* the part add_new_user, change_details and password_reset share once the
\* two entries are equal: pass_rules, then the hash is written when it
\* returned True (and, in change_details, the user confirmed)
SetPassword(confirmed) ==
    /\ secure_pass' = BoolToStr(pass_rules(pass_text).secure_pass)
    /\ shown' = pass_rules(pass_text).shown
    /\ user_password' = IF pass_rules(pass_text).secure_pass /\ confirmed
                        THEN [written |-> TRUE, text |-> pass_text]
                        ELSE user_password

\* add_new_user with the confirmation entry equal to the password or not
AddNewUser ==
    /\ ppc = "entry"
    /\ \E same \in BOOLEAN :
          IF same THEN SetPassword(TRUE)
          ELSE /\ shown' = {"match"}
               /\ UNCHANGED <<secure_pass, user_password>>
    /\ ppc' = "done"
    /\ UNCHANGED pass_text

\* password_reset, likewise
PasswordReset ==
    /\ ppc = "entry"
    /\ \E same \in BOOLEAN :
          IF same THEN SetPassword(TRUE)
          ELSE /\ shown' = {"match"}
               /\ UNCHANGED <<secure_pass, user_password>>
    /\ ppc' = "done"
    /\ UNCHANGED pass_text

\* change_details: the old password checked, then the new one, if any,
\* compared with its confirmation, tested and written once confirmed
ChangeDetails ==
    /\ ppc = "entry"
    /\ \E valid_old \in BOOLEAN, same \in BOOLEAN, result \in {"yes", "no"} :
          IF ~valid_old
          THEN /\ shown' = {"current"}
               /\ UNCHANGED <<secure_pass, user_password>>
          ELSE IF pass_text = <<>>
          THEN UNCHANGED <<secure_pass, shown, user_password>>
          ELSE IF same THEN SetPassword(result = "yes")
          ELSE UNCHANGED <<secure_pass, shown, user_password>>
    /\ ppc' = "done"
    /\ UNCHANGED pass_text

NextPassRules ==
    \/ (AddNewUser /\ UNCHANGED <<cvars, avars, dbvars>>)
    \/ (PasswordReset /\ UNCHANGED <<cvars, avars, dbvars>>)
    \/ (ChangeDetails /\ UNCHANGED <<cvars, avars, dbvars>>)

vars == <<cvars, avars, dbvars, pvars>>

Spec == Init /\ [][Next]_vars

\* the program with every clear-and-rewrite left to run to its end
SpecSession == Init /\ [][NextSession]_vars

\* the program until a process stopped inside a clear-and-rewrite has been
\* started again and has loaded the tables
SpecFirstCrash == Init /\ [][NextFirstCrash]_vars

SpecCipher == InitCipher /\ [][NextCipher]_vars

SpecClearDb == Init /\ [][NextClearDb]_vars

SpecPassRules == InitPassRules /\ [][NextPassRules]_vars

\* random.randint draws independently and uniformly, so a draw that stays
\* possible at every iteration of the loop is made at some iteration
SpecCipherLive ==
    SpecCipher /\ WF_vars(GenCharAccept /\ UNCHANGED <<avars, dbvars, pvars>>)

\* ------------------------------------------------------------------ claims
Ascii(s) == \A i \in 1..Len(s) : s[i] \in 0..127

\* C1: round trip of the cipher: decrypt applied to a pair that encrypt
\* returned for a string of codepoints in [0,127] returns that string.
C1_RoundTrip ==
    (cpc = "decrypted" /\ cipher = encr_text /\ keytext = encr_key /\ Ascii(text))
        => plain_text = [err |-> "none", text |-> text]

C1_Witness ==
    /\ cpc = "decrypted" /\ cipher = encr_text /\ keytext = encr_key
    /\ Len(text) = 2 /\ text[1] = 0 /\ text[2] = 127
    /\ plain_text.text = text

\* C3: length alignment: the ciphertext has len(s) characters and the key
\* text splits into len(s) integers, the i-th being the shift applied to the
\* i-th character.
C3_LengthAlignment ==
    cpc \in {"returned", "decrypted"} =>
        /\ Len(encr_text) = Len(text)
        /\ Len(Split(encr_key)) = Len(text)
        /\ \A i \in 1..Len(text) :
              /\ i \in 1..Len(Split(encr_key))
              /\ i \in 1..Len(encr_text)
              /\ StrToInt(Split(encr_key)[i]) =
                     [err |-> "none", val |-> encr_text[i] - text[i]]

C3_Witness ==
    /\ cpc = "returned" /\ Len(text) = 2 /\ text[2] = 233
    /\ Len(encr_text) = 2 /\ Len(Split(encr_key)) = 2

\* C4: every character of a ciphertext encrypt returns has a codepoint in
\* [32,126] other than 92.
C4_Printable ==
    cpc \in {"returned", "decrypted"} =>
        \A i \in 1..Len(encr_text) :
            encr_text[i] \in 32..126 /\ encr_text[i] # 92

C4_Witness ==
    /\ cpc = "returned" /\ Len(text) = 2
    /\ encr_text[1] = 126 /\ encr_text[2] = 32

\* C10: decrypt with a key text whose number of shifts differs from the
\* length of the ciphertext ends in an error and returns no plaintext.
C10_MalformedKeyIsError ==
    (cpc = "decrypted" /\ Len(Split(keytext)) # Len(cipher))
        => plain_text.err # "none"

\* C2: store round trip: when the tables hold a completed write_encrypted(R)
\* of a set R of field triples, create_dict returns the mapping 1..|R| whose
\* i-th value is the i-th record of R.
C2_StoreRoundTrip ==
    (/\ pc \in {"init_autosave", "broken"}
     /\ saved.complete
     /\ \A i \in 1..Len(saved.R) : Len(saved.R[i]) = 3)
        => (load_err = "none" /\ record_dict = Enumerate(saved.R))

\* C5: invariant I2: in every state of the persisted store, every step of a
\* save or clear included, passw_table and key_table have the same number of
\* rows.
C5_SameRowCount == Len(passw_table) = Len(key_table)

\* C6: a save replaces both tables as a unit: the process can stop at any
\* step of write_encrypted, so every step of it that changes the persisted
\* pair must take it from the previous snapshot to the complete new one,
\* which holds one row per record in each table.
C6_AtomicSave ==
    [][(/\ pc \in WritePcs /\ caller \in {"autosave", "save", "close"}
        /\ Tables' # Tables)
          => (/\ Len(passw_table') = Len(to_write)
              /\ Len(key_table') = Len(to_write))]_vars

\* C7: the check puts every pair of tables into exactly one of four states:
\* Empty iff both are empty, Aligned iff both are non-empty and of equal
\* length, OrphanKeys iff the cipher table is empty and the key table is not,
\* Mismatch iff both are non-empty and of unequal length.
C7_CheckStates ==
    (pc \in {"init_autosave", "broken"} /\ repair # "confirmed") =>
        /\ load_state \in {"Empty", "Aligned", "OrphanKeys", "Mismatch"}
        /\ load_state = "Empty" <=> (passw_table = <<>> /\ key_table = <<>>)
        /\ load_state = "Aligned" <=>
              (/\ passw_table # <<>> /\ key_table # <<>>
               /\ Len(passw_table) = Len(key_table))
        /\ load_state = "OrphanKeys" <=> (passw_table = <<>> /\ key_table # <<>>)
        /\ load_state = "Mismatch" <=>
              (/\ passw_table # <<>> /\ key_table # <<>>
               /\ Len(passw_table) # Len(key_table))

\* C8: a load that finds Mismatch, or OrphanKeys with the clear declined,
\* gives its caller an error, not the empty record set an empty store gives.
C8_BadLoadIsError ==
    (pc \in {"init_autosave", "broken"} /\ repair = "pending")
        => ~(load_err = "none" /\ record_dict = <<>>)

\* C9: after a load that found Mismatch or OrphanKeys, no step of the
\* session deletes or rewrites a row of either table unless the user has
\* confirmed a clear.
C9_NoRepairWithoutConfirmation ==
    [][(repair = "pending" /\ repair' = "pending")
          => UNCHANGED <<passw_table, key_table>>]_vars

\* C17: clear_db(table) for passw_table, key_table or log_table leaves that
\* table without rows and with its identifier sequence reset, so the next row
\* inserted gets identifier 1; the rows and sequences of the other two tables
\* are as before the call; any other table name changes nothing.
C17_ClearDbFrame ==
    cleared # "none" =>
        /\ cleared = "passw_table" =>
              /\ passw_table = <<>> /\ NextId(passw_table, passw_seq) = 1
              /\ Store = [before EXCEPT !.passw_table = <<>>, !.passw_seq = passw_seq]
        /\ cleared = "key_table" =>
              /\ key_table = <<>> /\ NextId(key_table, key_seq) = 1
              /\ Store = [before EXCEPT !.key_table = <<>>, !.key_seq = key_seq]
        /\ cleared = "log_table" =>
              /\ log_table = <<>> /\ NextId(log_table, log_seq) = 1
              /\ Store = [before EXCEPT !.log_table = <<>>, !.log_seq = log_seq]
        /\ cleared \notin {"passw_table", "key_table", "log_table"} => Store = before

C17_Witness ==
    /\ cleared = "key_table" /\ Len(before.key_table) = 2 /\ before.key_seq = 2
    /\ Len(passw_table) = 2 /\ Len(log_table) = 1

\* C11: the clear-then-rewrite sequences of an autosave tick and of a
\* shutdown save never interleave: while one of them is under way, every
\* step is a step of that same invocation, made with auto_lock held, until it
\* has ended; the other begins only after that.
C11_SavesDoNotInterleave ==
    [][(pc \in WritePcs /\ caller \in {"autosave", "close"})
          => (\/ pc' \notin WritePcs
              \/ (caller' = caller /\ to_write' = to_write /\ auto_lock'))]_vars

C11_Witness ==
    /\ pc = "we_write_keys" /\ caller = "close" /\ wx = 1
    /\ auto_lock /\ stopped /\ Len(passw_table) = 2 /\ Len(key_table) = 1

\* C12: no clear_db or write_to_main / write_to_keys on the two tables runs
\* while auto_lock is not held.
C12_WritesHoldLock ==
    pc \in {"we_clear_key", "we_clear_passw", "we_write_main", "we_write_keys"}
        => auto_lock

\* C13: auto_lock is free whenever no operation that acquires it is
\* executing (the program is off, at the login window, or waiting in the
\* main window).
C13_LockFreeWhenIdle == pc \in {"off", "login", "idle"} => ~auto_lock

\* C14: adding a record increases the number of records by one and gives the
\* new record an id greater than every existing id.
C14_AddAssignsFreshId ==
    [][AddRecord
          => (/\ Len(record_dict') = Len(record_dict) + 1
              /\ \A k \in DictKeys(record_dict) :
                    record_dict'[Len(record_dict')][1] > k)]_vars

\* C15: no step of an export deletes or writes a row of passw_table or
\* key_table.
C15_ExportsWriteNothing ==
    [][(caller = "export" /\ pc \in WritePcs)
          => UNCHANGED <<passw_table, key_table>>]_vars

\* C16: when write_encrypted(R) has run to completion, each table holds |R|
\* rows with identifiers 1..|R|, and row i of passw_table decrypts under row i
\* of key_table to the i-th record of R.
C16_FullReplace ==
    (pc = "we_done" /\ \A i \in 1..Len(to_write) : Len(to_write[i]) = 3) =>
        /\ Len(passw_table) = Len(to_write)
        /\ Len(key_table) = Len(to_write)
        /\ \A i \in 1..Len(to_write) :
              /\ passw_table[i][1] = i
              /\ key_table[i][1] = i
              /\ \A f \in 1..3 :
                    decrypt(passw_table[i][f + 1], key_table[i][f + 1])
                        = [err |-> "none", text |-> to_write[i][f]]

\* C18: for a character with a codepoint above 127 no draw of _gen_char
\* passes the test, and encrypt emits no ciphertext character for it.
C18_NonAsciiFailsLoudly ==
    \A i \in 1..Len(text) :
        text[i] > 127 =>
            /\ Len(encrypt_list) < i
            /\ (cpc = "gen_char" /\ pos = i) => ~valid

\* C19: for every codepoint in [0,127] some shift in [-codepoint,
\* 127-codepoint] passes the test of _gen_char; a shift _gen_char returns
\* lies in that range; and under fair draws the loop reaches a draw that
\* passes.
C19_GenCharTerminates ==
    /\ \A val \in 0..127 :
          \E sh \in RandInt(0 - val, 127 - val) : GenCharValid(val + sh)
    /\ []((cpc = "gen_char" /\ valid)
            => shift \in RandInt(0 - text[pos], 127 - text[pos]))
    /\ ((cpc = "gen_char" /\ text[pos] \in 0..127)
            ~> (cpc = "gen_char" /\ valid))

C19_Witness ==
    /\ cpc = "gen_char" /\ valid /\ text = <<92>> /\ shift = 34
    /\ new_value = <<126>>

\* C20: every ciphertext character encrypt emits can come from every
\* plaintext codepoint in [0,127]: some shift in [-p, 127-p] takes p to it
\* and passes the test of _gen_char.
C20_CiphertextHidesPlaintext ==
    cpc \in {"returned", "decrypted"} =>
        \A i \in 1..Len(encr_text) : \A p \in 0..127 :
            /\ (encr_text[i] - p) \in RandInt(0 - p, 127 - p)
            /\ GenCharValid(p + (encr_text[i] - p))

C20_Witness ==
    /\ cpc = "returned" /\ text = <<127, 0>> /\ encr_text = <<32, 126>>

\* C21: when the process is stopped inside write_encrypted after the
\* ciphertext row of a record is committed and before its key row is,
\* passw_table holds exactly one row more than key_table, nothing changes
\* that before the next load, and the lists that load reads are of unequal
\* length.
C21_CrashWindow ==
    stopped_at = "we_write_keys" =>
        /\ Len(passw_table) = Len(key_table) + 1
        /\ Len(read_all_from_db.databox) = Len(read_all_from_db.keybox) + 1
        /\ pc \in {"init_autosave", "broken"} => load_state \in {"Mismatch", "Empty"}

C21_Witness ==
    /\ stopped_at = "we_write_keys" /\ pc = "init_autosave"
    /\ Len(passw_table) = 2 /\ Len(key_table) = 1 /\ load_state = "Mismatch"

\* C22 as stated: from a store with equal row counts, at every step of
\* write_encrypted key_table has at most as many rows as passw_table and the
\* difference is at most the row count before the save.
C22_DifferenceWithinPreSave ==
    (pc \in WritePcs /\ pre_rows[1] = pre_rows[2]) =>
        /\ Len(key_table) =< Len(passw_table)
        /\ Len(passw_table) - Len(key_table) =< pre_rows[1]

\* C22, amended: from a store with equal row counts, at every step of
\* write_encrypted key_table has at most as many rows as passw_table and the
\* difference is at most the row count before the save, or 1 when the store
\* was empty before the save; a process stopped inside a save never leaves
\* keys without ciphertext.
C22_KeysNeverExceedCiphertext ==
    /\ (pc \in WritePcs /\ pre_rows[1] = pre_rows[2]) =>
          /\ Len(key_table) =< Len(passw_table)
          /\ Len(passw_table) - Len(key_table)
                 =< (IF pre_rows[1] = 0 THEN 1 ELSE pre_rows[1])
    /\ stopped_at # "none" =>
          CheckState(read_all_from_db.databox, read_all_from_db.keybox) # "OrphanKeys"

C22_Witness ==
    /\ pc = "we_clear_passw" /\ pre_rows = <<2, 2>>
    /\ Len(passw_table) = 2 /\ key_table = <<>>

\* C23: a log out saves first: at the step that takes the main window to the
\* login window, the tables decode to the records held in memory.
C23_LogOutSaves ==
    [][(pc = "idle" /\ pc' = "login")
          => (/\ db_decryption("no").err = "none"
              /\ db_decryption("no").records = DictValues(record_dict)
              /\ UNCHANGED Tables)]_vars

\* C24: the shutdown save runs inside one hold of auto_lock with autosave
\* stopped and no tick scheduled; when write_encrypted has returned the
\* tables decode to the records held in memory when close was called; and a
\* process that is down writes nothing.
C24_ShutdownSaveOrder ==
    /\ (caller = "close" /\ pc \in WritePcs) =>
          /\ auto_lock /\ stopped /\ ~autosave_id
          /\ pc = "we_done" =>
                /\ db_decryption("no").err = "none"
                /\ db_decryption("no").records = to_write
    /\ pc = "off" => (to_write = <<>> /\ ~auto_lock)

\* C25: once stop_auto_save has run, no tick is scheduled and no autosave
\* clears or writes a table; and stop_auto_save runs only while no
\* clear-and-rewrite is under way.
C25_StoppedAutosaveStaysOff ==
    [][/\ stopped' => (~autosave_id' /\ caller' # "autosave")
       /\ (~stopped /\ stopped') => pc \notin WritePcs]_vars

C25_Witness ==
    /\ stopped /\ auto_lock /\ pc = "idle" /\ ~autosave_id /\ caller = "none"
    /\ Len(record_dict) = 2

\* C26: a shutdown request never blocks on auto_lock.
C26_ShutdownNeverBlocks ==
    [][(CloseNoSave \/ CloseSave) => pc' # "blocked"]_vars

\* C27: every time a main window is opened the autosave writes the records
\* held in memory, and every autosave that has written schedules the next.
C27_AutosaveInEverySession ==
    [][/\ AutoSaveInit => (pc' = "we_clear_key" /\ caller' = "autosave")
       /\ AutoSaveFinish => autosave_id']_vars

\* C28: after an add, a change or a delete of a record, unsaved_changes is
\* true.
C28_EditsSetUnsavedChanges ==
    [][(AddRecord \/ ChangeRecord \/ DeleteRecord) => unsaved_changes']_vars

\* C29: every record a load returns has three fields, each the decryption of
\* the field of the ciphertext row under the key row at the same position.
C29_LoadedRecordsAreDecrypted ==
    pc = "init_autosave" =>
        \A i \in 1..Len(record_dict) :
            /\ Len(record_dict[i][2]) = 3
            /\ i =< Len(passw_table) /\ i =< Len(key_table)
            /\ \A f \in 1..3 :
                  decrypt(passw_table[i][f + 1], key_table[i][f + 1])
                      = [err |-> "none", text |-> record_dict[i][2][f]]

\* C30: pass_rules returns True exactly for a text of at least 8 characters
\* with a lowercase letter, an uppercase letter, a digit and a special
\* character, and no call writes a password shorter than 8 characters.
C30_PassRules ==
    ppc = "done" =>
        /\ secure_pass # "none" =>
              (secure_pass = "True" <=>
                  /\ Len(pass_text) >= 8
                  /\ \E i \in 1..Len(pass_text) : pass_text[i] \in lower_list
                  /\ \E i \in 1..Len(pass_text) : pass_text[i] \in upper_list
                  /\ \E i \in 1..Len(pass_text) : pass_text[i] \in digits_list
                  /\ \E i \in 1..Len(pass_text) : pass_text[i] \in special_list)
        /\ user_password.written => Len(user_password.text) >= 8

====
